---- MODULE Spec2Model ----
(***************************************************************************)
(* A model of uc (src/main.go): the natural-language-to-Unix-command tool. *)
(* Strings are sequences of one-character strings, so that the sanitizer   *)
(* (cleanLLMResponse) and the line classification are computed character   *)
(* by character as the Go code computes them.                              *)
(***************************************************************************)
EXTENDS Naturals, Sequences, FiniteSets

VARIABLES
    pc,         \* "start" | "idle" | "closed" | "done" | "fatal" | "crashed" ("off": unit harness)
    dryRun,     \* the session's dry-run flag (main.go:597, 630, 709)
    args,       \* "words": a request on the command line; "none": interactive
    configPath, \* "" or "given": the --config flag
    fs,         \* the settings files on disk: [home, given]
    client,     \* the adapter main constructed: "nil" | "ollama" | "openai" | "gemini"
    togBefore,  \* history: the flag's value before each of the last two dryrun directives
    last,       \* history: what the last handler read, called and printed
    exitCode,   \* "running" | "0" | "1" | "2" (a Go panic exits with 2)
    fnPc,       \* unit harness: "idle" | "input" | "cleaned" | "recleaned" | "ran"
    fnIn,       \* unit harness: the string handed to the function under test
    fnOut,      \* unit harness: what cleanLLMResponse returned last
    fnPrev,     \* unit harness: what cleanLLMResponse returned the time before
    fnRun       \* unit harness: what ExecuteCommand did (a record)

fvars == <<fnPc, fnIn, fnOut, fnPrev, fnRun>>
svars == <<pc, dryRun, args, configPath, fs, client, togBefore, last, exitCode>>
vars == <<svars, fvars>>

----------------------------------------------------------------------------
(* Bounds of the model *)

\* most backticks put in front of / behind a generated sanitizer input
MaxTicks == 4
\* longest free-form body of a generated sanitizer input
MaxBody == 2

----------------------------------------------------------------------------
(* package strings *)

\* the backtick character (written as a token: the lexer reserves the character)
BT == "<backtick>"
NL == "\n"
SP == " "

\* unicode.IsSpace, restricted to the white space the model's inputs use
IsSpace(c) == c \in {" ", "\n", "\t", "\r"}

SetMin(S) == CHOOSE x \in S : \A y \in S : x <= y
SetMax(S) == CHOOSE x \in S : \A y \in S : x >= y

\* strings.TrimSpace
TrimSpace(s) ==
    LET keep == {i \in 1..Len(s) : ~IsSpace(s[i])}
    IN  IF keep = {} THEN <<>> ELSE SubSeq(s, SetMin(keep), SetMax(keep))

\* strings.HasPrefix
HasPrefix(s, p) == Len(s) >= Len(p) /\ SubSeq(s, 1, Len(p)) = p

\* strings.HasSuffix
HasSuffix(s, p) == Len(s) >= Len(p) /\ SubSeq(s, Len(s) - Len(p) + 1, Len(s)) = p

\* strings.TrimPrefix
TrimPrefix(s, p) == IF HasPrefix(s, p) THEN SubSeq(s, Len(p) + 1, Len(s)) ELSE s

\* strings.TrimSuffix
TrimSuffix(s, p) == IF HasSuffix(s, p) THEN SubSeq(s, 1, Len(s) - Len(p)) ELSE s

\* strings.Split(s, "\n"): always at least one element
RECURSIVE Split(_)
Split(s) ==
    LET at == {i \in 1..Len(s) : s[i] = NL}
    IN  IF at = {} THEN <<s>>
        ELSE <<SubSeq(s, 1, SetMin(at) - 1)>> \o Split(SubSeq(s, SetMin(at) + 1, Len(s)))

\* strings.Join(lines, "\n")
RECURSIVE Join(_)
Join(lines) ==
    IF Len(lines) = 0 THEN <<>>
    ELSE IF Len(lines) = 1 THEN lines[1]
    ELSE lines[1] \o <<NL>> \o Join(Tail(lines))

\* strings.ToLower on the ASCII letters the directives use
LowerOf(c) ==
    CASE c = "E" -> "e" [] c = "X" -> "x" [] c = "I" -> "i" [] c = "T" -> "t"
      [] c = "H" -> "h" [] c = "L" -> "l" [] c = "P" -> "p" [] c = "D" -> "d"
      [] c = "R" -> "r" [] c = "Y" -> "y" [] c = "U" -> "u" [] c = "N" -> "n"
      [] c = "O" -> "o" [] c = "A" -> "a" [] c = "G" -> "g" [] c = "M" -> "m"
      [] OTHER -> c

ToLower(s) == [i \in 1..Len(s) |-> LowerOf(s[i])]

----------------------------------------------------------------------------
(* The Response Sanitizer *)

Fence == <<BT, BT, BT>>

\* the language identifiers dropped after a fence (main.go:283)
IsShellTag(line) ==
    \/ line = <<"b", "a", "s", "h">>
    \/ line = <<"s", "h">>
    \/ line = <<"s", "h", "e", "l", "l">>

\* mutant of StripSingle: the text between the backticks is not re-trimmed
StripSingle_NoRetrim(r) ==
    IF HasPrefix(r, <<BT>>) /\ HasSuffix(r, <<BT>>)
    THEN TrimSuffix(TrimPrefix(r, <<BT>>), <<BT>>)
    ELSE r

\* main.go:266-270: one backtick off each end, then re-trim
StripSingle(r) ==
    IF HasPrefix(r, <<BT>>) /\ HasSuffix(r, <<BT>>)
    THEN TrimSpace(TrimSuffix(TrimPrefix(r, <<BT>>), <<BT>>))
    ELSE r

\* main.go:279-288: drop a first line that is a language identifier
DropLanguageTag(r) ==
    LET lines == Split(r)
    IN  IF Len(lines) > 0 /\ IsShellTag(TrimSpace(lines[1]))
        THEN TrimSpace(Join(Tail(lines)))
        ELSE r

\* main.go:273-289: one fence off each end, re-trim, drop the language tag
StripFence(r) ==
    IF HasPrefix(r, Fence) /\ HasSuffix(r, Fence)
    THEN DropLanguageTag(TrimSpace(TrimSuffix(TrimPrefix(r, Fence), Fence)))
    ELSE r

cleanLLMResponse(response) == StripFence(StripSingle(TrimSpace(response)))

----------------------------------------------------------------------------
(* The Command Runner *)

\* what cmd.Run() can produce: the exit status and the captured stderr
RunOutcomes == [fails : BOOLEAN, stderr : {<<NL>>, <<"e", NL>>}]

\* mutant of ExecuteCommand: only the empty string is rejected
ExecuteCommand_NoBlankCheck(command, run) ==
    IF command = <<>>
    THEN [err |-> "no command generated", subshell |-> FALSE, captured |-> <<>>, msgs |-> <<>>]
    ELSE IF run.fails
    THEN [err |-> "exit", subshell |-> TRUE, captured |-> run.stderr,
          msgs |-> <<"echo">> \o
                   (IF TrimSpace(run.stderr) # <<>>
                    THEN <<"Error: stderr">> ELSE <<"Command failed">>)]
    ELSE [err |-> "", subshell |-> TRUE, captured |-> run.stderr, msgs |-> <<"echo">>]

\* main.go:548-592. err: "" is nil; subshell: whether /bin/sh was started;
\* captured: what the command wrote to stderr (stderrBuf); msgs: what
\* ExecuteCommand itself printed, in order
ExecuteCommand(command, run) ==
    IF command = <<>>
    THEN [err |-> "no command generated", subshell |-> FALSE, captured |-> <<>>, msgs |-> <<>>]
    ELSE IF TrimSpace(command) = <<>>
    THEN [err |-> "empty command", subshell |-> FALSE, captured |-> <<>>, msgs |-> <<>>]
    ELSE IF run.fails
    THEN [err |-> "exit", subshell |-> TRUE, captured |-> run.stderr,
          msgs |-> <<"echo">> \o
                   (IF TrimSpace(run.stderr) # <<>>
                    THEN <<"Error: stderr">> ELSE <<"Command failed">>)]
    ELSE [err |-> "", subshell |-> TRUE, captured |-> run.stderr, msgs |-> <<"echo">>]

\* ExecuteCommand not called
NoRun == [err |-> "", subshell |-> FALSE, captured |-> <<>>, msgs |-> <<>>]

----------------------------------------------------------------------------
(* Unit harness: cleanLLMResponse and ExecuteCommand applied to generated   *)
(* strings                                                                  *)

Ticks(n) == [i \in 1..n |-> BT]

BodyChars == {"l", SP, NL, BT}

Bodies == UNION {[1..n -> BodyChars] : n \in 0..MaxBody}

\* what may follow the opening backticks: nothing, a language tag on a line of
\* its own, a tag followed by a space, another word
Openers ==
    { <<>>, <<"s", "h", NL>>, <<"b", "a", "s", "h", NL>>,
      <<"s", "h", "e", "l", "l", SP, NL>>, <<"s", "h", SP>>, <<"z", "s", "h", NL>> }

FnInputs ==
    { lead \o Ticks(a) \o open \o body \o Ticks(b) \o trail :
        lead \in {<<>>, <<SP>>}, a \in 0..MaxTicks, open \in Openers,
        body \in Bodies, b \in 0..MaxTicks, trail \in {<<>>, <<NL>>} }

FnInit ==
    /\ pc = "off"
    /\ dryRun = FALSE
    /\ args = "none"
    /\ configPath = ""
    /\ fs = [home |-> "absent", given |-> "absent"]
    /\ client = "nil"
    /\ togBefore = <<>>
    /\ last = <<>>
    /\ exitCode = "running"
    /\ fnPc = "input"
    /\ fnIn \in FnInputs
    /\ fnOut = <<>>
    /\ fnPrev = <<>>
    /\ fnRun = NoRun

\* cleanLLMResponse(fnIn)
Sanitize ==
    /\ fnPc = "input"
    /\ fnOut' = cleanLLMResponse(fnIn)
    /\ fnPc' = "cleaned"
    /\ UNCHANGED <<fnIn, fnPrev, fnRun, svars>>

\* cleanLLMResponse applied to its own result
SanitizeAgain ==
    /\ fnPc = "cleaned"
    /\ fnPrev' = fnOut
    /\ fnOut' = cleanLLMResponse(fnOut)
    /\ fnPc' = "recleaned"
    /\ UNCHANGED <<fnIn, fnRun, svars>>

\* ExecuteCommand(fnIn)
RunCommand ==
    /\ fnPc = "input"
    /\ \E run \in RunOutcomes : fnRun' = ExecuteCommand(fnIn, run)
    /\ fnPc' = "ran"
    /\ UNCHANGED <<fnIn, fnOut, fnPrev, svars>>

FnNext == Sanitize \/ SanitizeAgain \/ RunCommand

FnSpec == FnInit /\ [][FnNext]_vars

----------------------------------------------------------------------------
(* Settings: LoadConfig and CreateLLMClient *)

\* The settings files the model uses, by name. provider is a character
\* sequence (CreateLLMClient lower-cases it); a key is "" or a credential.
Settings ==
    [ default       |-> [provider |-> <<"o","l","l","a","m","a">>, openaiKey |-> "",
                         geminiKey |-> "", sysPrompt |-> "home/uc.prompts"],
      ollama        |-> [provider |-> <<"o","l","l","a","m","a">>, openaiKey |-> "",
                         geminiKey |-> "", sysPrompt |-> "ollama.prompts"],
      openai        |-> [provider |-> <<"O","p","e","n","A","I">>, openaiKey |-> "sk",
                         geminiKey |-> "", sysPrompt |-> "openai.prompts"],
      openai_nokey  |-> [provider |-> <<"o","p","e","n","a","i">>, openaiKey |-> "",
                         geminiKey |-> "gk", sysPrompt |-> ""],
      gemini        |-> [provider |-> <<"g","e","m","i","n","i">>, openaiKey |-> "",
                         geminiKey |-> "gk", sysPrompt |-> "gemini.prompts"],
      gemini_nokey  |-> [provider |-> <<"G","E","M","I","N","I">>, openaiKey |-> "sk",
                         geminiKey |-> "", sysPrompt |-> ""],
      claude        |-> [provider |-> <<"c","l","a","u","d","e">>, openaiKey |-> "sk",
                         geminiKey |-> "gk", sysPrompt |-> ""] ]

SettingsNames == DOMAIN Settings

\* What a settings file can be on disk: one of the settings above, or absent,
\* unreadable, or not JSON. "nohome" (the home file only): os.UserHomeDir fails.
GivenFiles == {"absent", "unreadable", "garbage",
               "ollama", "openai", "openai_nokey", "gemini", "gemini_nokey", "claude"}
HomeFiles == GivenFiles \cup {"nohome"}
\* the home file's states tried when --config names another file
HomeBeside == {"nohome", "garbage", "ollama"}

\* main.go:105-140. fs = [home, given]: the two settings files; path is "" (the
\* default, in the home directory) or "given" (--config). Returns the settings'
\* name, or "nil" with an error, and the files as LoadConfig leaves them (an
\* absent file is created with the defaults, main.go:121-126, 143-176).
LoadConfig(path, files) ==
    LET file == IF path = "" THEN "home" ELSE "given"
        made == IF files[file] = "absent" /\ files.home # "nohome"
                THEN [files EXCEPT ![file] = "default"] ELSE files
    IN  IF path = "" /\ files.home = "nohome" THEN [cfg |-> "nil", fs |-> files]
        ELSE IF files[file] = "absent" /\ files.home = "nohome" THEN [cfg |-> "nil", fs |-> files]
        ELSE IF made[file] \in {"unreadable", "garbage"} THEN [cfg |-> "nil", fs |-> made]
        ELSE [cfg |-> made[file], fs |-> made]

\* mutant of CreateLLMClient: the credentials are not checked
CreateLLMClient_NoKeyCheck(config) ==
    LET c == Settings[config]
        provider == ToLower(c.provider)
    IN  IF provider = <<"o","l","l","a","m","a">> THEN "ollama"
        ELSE IF provider = <<"o","p","e","n","a","i">> THEN "openai"
        ELSE IF provider = <<"g","e","m","i","n","i">> THEN "gemini"
        ELSE "nil"

\* main.go:371-388: the adapter's variant, or "nil" with an error
CreateLLMClient(config) ==
    LET c == Settings[config]
        provider == ToLower(c.provider)
    IN  IF provider = <<"o","l","l","a","m","a">> THEN "ollama"
        ELSE IF provider = <<"o","p","e","n","a","i">>
        THEN (IF c.openaiKey = "" THEN "nil" ELSE "openai")
        ELSE IF provider = <<"g","e","m","i","n","i">>
        THEN (IF c.geminiKey = "" THEN "nil" ELSE "gemini")
        ELSE "nil"

\* main.go:295-300: generatePrompt loads the default settings again, ignores
\* the error and reads config.SysPromptFile: a nil config is a nil-pointer
\* dereference. instructions: the custom-instructions file the prompt uses.
generatePrompt(files) ==
    LET loaded == LoadConfig("", files)
    IN  IF loaded.cfg = "nil"
        THEN [panic |-> TRUE, instructions |-> "", fs |-> loaded.fs]
        ELSE [panic |-> FALSE, instructions |-> Settings[loaded.cfg].sysPrompt,
              fs |-> loaded.fs]

----------------------------------------------------------------------------
(* HTTP responses and the JSON documents in them *)

\* A decoded JSON value (interface{} after json.Unmarshal)
JNull == [t |-> "null"]
JNum == [t |-> "num"]
JStr(text) == [t |-> "str", s |-> text]
JArr(elems) == [t |-> "arr", a |-> elems]
JObj(fields) == [t |-> "obj", o |-> fields]

\* m[key] on a map[string]interface{}: nil when the key is absent
Get(obj, key) == IF key \in DOMAIN obj.o THEN obj.o[key] ELSE JNull

\* The texts a model answers with
Texts ==
    << <<"l", "s">>,
       <<SP, BT, "l", "s", BT, NL>>,
       <<SP, NL>>,
       Ticks(4) \o <<"s", "h", NL>> \o Ticks(4),
       Fence \o <<"s", "h", NL, "l", "s", NL>> \o Fence >>

\* an Ollama answer, an OpenAI answer, a Gemini answer carrying text
OllamaDoc(text) == JObj([response |-> JStr(text)])
OpenAIDoc(text) ==
    JObj([choices |-> JArr(<<JObj([message |-> JObj([content |-> JStr(text)])])>>)])
GeminiDoc(text) ==
    JObj([candidates |->
        JArr(<<JObj([content |-> JObj([parts |-> JArr(<<JObj([text |-> JStr(text)])>>)])])>>)])

\* documents that are JSON but not the answer's shape
OddDocs ==
    << JNull,
       JObj([response |-> JNum]),
       JObj([choices |-> JStr(<<"l", "s">>)]),
       JObj([choices |-> JArr(<<>>)]),
       JObj([choices |-> JArr(<<JStr(<<"l", "s">>)>>)]),
       JObj([choices |-> JArr(<<JObj([message |-> JStr(<<"l", "s">>)])>>)]),
       JObj([choices |-> JArr(<<JObj([message |-> JObj([content |-> JNull])])>>)]),
       JObj([candidates |-> JArr(<<>>)]),
       JObj([candidates |-> JArr(<<JNum>>)]),
       JObj([candidates |-> JArr(<<JObj([content |-> JObj([role |-> JStr(<<"a">>)])])>>)]),
       JObj([candidates |-> JArr(<<JObj([content |-> JObj([parts |-> JArr(<<>>)])])>>)]),
       JObj([candidates |->
           JArr(<<JObj([content |-> JObj([parts |-> JArr(<<JObj([text |-> JNum])>>)])])>>)]) >>

\* An HTTP exchange: net = "fail" (http.Post / client.Do returns an error),
\* "cut" (io.ReadAll fails), or "ok" with a body; json: whether the body is
\* JSON that decodes into a map (an object or null); doc: the decoded value.
Exchange(net, json, doc) == [net |-> net, json |-> json, doc |-> doc]

Responses ==
    << Exchange("fail", FALSE, JNull), Exchange("cut", FALSE, JNull),
       Exchange("ok", FALSE, JNull) >>
    \o [i \in 1..Len(OddDocs) |-> Exchange("ok", TRUE, OddDocs[i])]
    \o [i \in 1..Len(Texts) |-> Exchange("ok", TRUE, OllamaDoc(Texts[i]))]
    \o [i \in 1..Len(Texts) |-> Exchange("ok", TRUE, OpenAIDoc(Texts[i]))]
    \o [i \in 1..Len(Texts) |-> Exchange("ok", TRUE, GeminiDoc(Texts[i]))]

----------------------------------------------------------------------------
(* The Provider Adapters *)

\* what GenerateCommand returns, or that it panicked; sanitized: whether
\* cleanLLMResponse was called
GenOk(text) == [cmd |-> cleanLLMResponse(text), err |-> "", panic |-> FALSE, sanitized |-> TRUE]
GenErr(msg) == [cmd |-> <<>>, err |-> msg, panic |-> FALSE, sanitized |-> FALSE]
GenPanic == [cmd |-> <<>>, err |-> "", panic |-> TRUE, sanitized |-> FALSE]

\* main.go:405-419, 459-473, 512-526: the call, the read and the decoding,
\* common to the three adapters; "" when the document is decoded
Transport(resp, provider) ==
    IF resp.net = "fail" THEN "failed to call " \o provider \o " API"
    ELSE IF resp.net = "cut" THEN "read error"
    ELSE IF ~resp.json THEN "json error"
    ELSE ""

\* main.go:421-425
OllamaExtract(doc) ==
    LET responseText == Get(doc, "response")
    IN  IF responseText.t = "str" THEN GenOk(responseText.s)
        ELSE GenErr("unexpected response format from Ollama")

\* mutant of OpenAIExtract: the length of choices is not checked
OpenAIExtract_NoLenCheck(doc) ==
    LET choices == Get(doc, "choices")
    IN  IF choices.t # "arr" THEN GenErr("unexpected response format from OpenAI")
        ELSE IF Len(choices.a) = 0 THEN GenPanic
        ELSE IF choices.a[1].t # "obj" THEN GenPanic
        ELSE IF Get(choices.a[1], "message").t # "obj" THEN GenPanic
        ELSE IF Get(Get(choices.a[1], "message"), "content").t # "str" THEN GenPanic
        ELSE GenOk(Get(Get(choices.a[1], "message"), "content").s)

\* main.go:475-484: choices is checked; choice, message and content are
\* unchecked type assertions, which panic on any other type
OpenAIExtract(doc) ==
    LET choices == Get(doc, "choices")
    IN  IF choices.t # "arr" THEN GenErr("unexpected response format from OpenAI")
        ELSE IF Len(choices.a) = 0 THEN GenErr("unexpected response format from OpenAI")
        ELSE IF choices.a[1].t # "obj" THEN GenPanic
        ELSE IF Get(choices.a[1], "message").t # "obj" THEN GenPanic
        ELSE IF Get(Get(choices.a[1], "message"), "content").t # "str" THEN GenPanic
        ELSE GenOk(Get(Get(choices.a[1], "message"), "content").s)

\* main.go:528-539: candidates is checked; candidate, content, parts, parts[0]
\* and text are unchecked (parts[0] of an empty array is an index panic)
GeminiExtract(doc) ==
    LET candidates == Get(doc, "candidates")
    IN  IF candidates.t # "arr" THEN GenErr("unexpected response format from Gemini")
        ELSE IF Len(candidates.a) = 0 THEN GenErr("unexpected response format from Gemini")
        ELSE IF candidates.a[1].t # "obj" THEN GenPanic
        ELSE IF Get(candidates.a[1], "content").t # "obj" THEN GenPanic
        ELSE LET parts == Get(Get(candidates.a[1], "content"), "parts")
             IN  IF parts.t # "arr" THEN GenPanic
                 ELSE IF Len(parts.a) = 0 THEN GenPanic
                 ELSE IF parts.a[1].t # "obj" THEN GenPanic
                 ELSE IF Get(parts.a[1], "text").t # "str" THEN GenPanic
                 ELSE GenOk(Get(parts.a[1], "text").s)

\* json.Unmarshal of null leaves the map nil: every lookup yields nil
AsMap(doc) == IF doc.t = "obj" THEN doc ELSE JObj(<<>>)

\* main.go:400-425, 445-484, 506-539: the variant's exchange with its backend,
\* once the prompt is built
CallProvider(llmClient, resp) ==
    IF llmClient = "ollama"
    THEN (IF Transport(resp, "Ollama") # "" THEN GenErr(Transport(resp, "Ollama"))
          ELSE OllamaExtract(AsMap(resp.doc)))
    ELSE IF llmClient = "openai"
    THEN (IF Transport(resp, "OpenAI") # "" THEN GenErr(Transport(resp, "OpenAI"))
          ELSE OpenAIExtract(AsMap(resp.doc)))
    ELSE (IF Transport(resp, "Gemini") # "" THEN GenErr(Transport(resp, "Gemini"))
          ELSE GeminiExtract(AsMap(resp.doc)))

\* main.go:391-426, 434-485, 493-540: LLMClient.GenerateCommand. The prompt is
\* built first (generatePrompt); http: whether the request was sent.
GenerateCommand(llmClient, files, resp) ==
    LET prompt == generatePrompt(files)
    IN  [ gen          |-> IF prompt.panic THEN GenPanic ELSE CallProvider(llmClient, resp),
          http         |-> ~prompt.panic,
          instructions |-> prompt.instructions,
          fs           |-> prompt.fs ]

----------------------------------------------------------------------------
(* processCommand *)

\* main.go:248-259
handleCommandError(err, context) ==
    IF context = "Error generating command"
    THEN << context \o ": " \o err,
            "The command can't be executed - failed to generate Unix equivalent." >>
    ELSE IF context = "Error executing command"
    THEN << "Command execution failed. See error details above." >>
    ELSE << context \o ": " \o err >>

\* GenerateCommand not called
GenNone == [cmd |-> <<>>, err |-> "", panic |-> FALSE, sanitized |-> FALSE]

\* what one handler did: the calls it made and what it printed
Did(g, execCalls, exec, msgs) ==
    [ genCalls |-> 1, gen |-> g.gen, http |-> g.http, instructions |-> g.instructions,
      fs |-> g.fs, execCalls |-> execCalls, exec |-> exec, msgs |-> msgs ]

\* mutant of processCommand: a failed generation is tried a second time
processCommand_Retry(llmClient, files, resp, run, dryRunFlag) ==
    LET g == GenerateCommand(llmClient, files, resp)
        unixCommand == g.gen.cmd
    IN  IF g.gen.panic THEN Did(g, 0, NoRun, <<>>)
        ELSE IF g.gen.err # ""
        THEN [Did(g, 0, NoRun, handleCommandError(g.gen.err, "Error generating command"))
                EXCEPT !.genCalls = 2]
        ELSE IF TrimSpace(unixCommand) = <<>>
        THEN Did(g, 0, NoRun, <<"LLM returned empty command">>)
        ELSE IF dryRunFlag
        THEN Did(g, 0, NoRun, <<"[dry run] command">>)
        ELSE LET e == ExecuteCommand(unixCommand, run)
             IN  Did(g, 1, e,
                     e.msgs \o (IF e.err # ""
                                THEN handleCommandError(e.err, "Error executing command")
                                ELSE <<>>))

\* mutant of processCommand: the dry-run flag is not looked at
processCommand_NoDryRun(llmClient, files, resp, run, dryRunFlag) ==
    LET g == GenerateCommand(llmClient, files, resp)
        unixCommand == g.gen.cmd
    IN  IF g.gen.panic THEN Did(g, 0, NoRun, <<>>)
        ELSE IF g.gen.err # ""
        THEN Did(g, 0, NoRun, handleCommandError(g.gen.err, "Error generating command"))
        ELSE IF TrimSpace(unixCommand) = <<>>
        THEN Did(g, 0, NoRun, <<"LLM returned empty command">>)
        ELSE LET e == ExecuteCommand(unixCommand, run)
             IN  Did(g, 1, e,
                     e.msgs \o (IF e.err # ""
                                THEN handleCommandError(e.err, "Error executing command")
                                ELSE <<>>))

\* mutant of processCommand: an empty command is not caught before the runner
processCommand_NoEmptyCheck(llmClient, files, resp, run, dryRunFlag) ==
    LET g == GenerateCommand(llmClient, files, resp)
        unixCommand == g.gen.cmd
    IN  IF g.gen.panic THEN Did(g, 0, NoRun, <<>>)
        ELSE IF g.gen.err # ""
        THEN Did(g, 0, NoRun, handleCommandError(g.gen.err, "Error generating command"))
        ELSE IF dryRunFlag
        THEN Did(g, 0, NoRun, <<"[dry run] command">>)
        ELSE LET e == ExecuteCommand(unixCommand, run)
             IN  Did(g, 1, e,
                     e.msgs \o (IF e.err # ""
                                THEN handleCommandError(e.err, "Error executing command")
                                ELSE <<>>))

\* main.go:727-759. run: what the subshell does if one is started.
processCommand(llmClient, files, resp, run, dryRunFlag) ==
    LET g == GenerateCommand(llmClient, files, resp)
        unixCommand == g.gen.cmd
    IN  IF g.gen.panic THEN Did(g, 0, NoRun, <<>>)
        ELSE IF g.gen.err # ""
        THEN Did(g, 0, NoRun, handleCommandError(g.gen.err, "Error generating command"))
        ELSE IF TrimSpace(unixCommand) = <<>>
        THEN Did(g, 0, NoRun, <<"LLM returned empty command">>)
        ELSE IF dryRunFlag
        THEN Did(g, 0, NoRun, <<"[dry run] command">>)
        ELSE LET e == ExecuteCommand(unixCommand, run)
             IN  Did(g, 1, e,
                     e.msgs \o (IF e.err # ""
                                THEN handleCommandError(e.err, "Error executing command")
                                ELSE <<>>))

\* The subshell's outcomes to draw for a request: all of them when the request
\* starts a subshell, one (never looked at) when it does not
Runs(llmClient, files, resp, dryRunFlag) ==
    IF processCommand(llmClient, files, resp, [fails |-> FALSE, stderr |-> <<NL>>],
                      dryRunFlag).exec.subshell
    THEN RunOutcomes
    ELSE {[fails |-> FALSE, stderr |-> <<NL>>]}

----------------------------------------------------------------------------
(* The session: main and runInteractiveMode *)

\* main.go:35-37
CmdHelp == <<"h", "e", "l", "p">>
CmdExit == <<"e", "x", "i", "t">>
CmdDryRun == <<"d", "r", "y", "r", "u", "n">>

\* The lines the user types
Lines ==
    << <<>>,
       <<SP, SP>>,
       <<"e", "x", "i", "t">>,
       <<SP, "E", "x", "i", "T", SP>>,
       <<"h", "e", "l", "p">>,
       <<"H", "E", "L", "P", SP>>,
       <<"d", "r", "y", "r", "u", "n">>,
       <<SP, "D", "r", "y", "R", "u", "n">>,
       <<"l", "i", "s", "t", SP, "f", "i", "l", "e", "s">>,
       <<"e", "x", "i", "t", SP, "n", "o", "w">> >>

\* mutant of Classify: the directives are matched case-sensitively
Classify_CaseSensitive(line) ==
    LET input == TrimSpace(line)
    IN  IF input = <<>> THEN "empty"
        ELSE IF input = CmdExit THEN "exit"
        ELSE IF input = CmdHelp THEN "help"
        ELSE IF input = CmdDryRun THEN "dryrun"
        ELSE "request"

\* main.go:690-721: the trimmed line against the directives, in the code's order
Classify(line) ==
    LET input == TrimSpace(line)
    IN  IF input = <<>> THEN "empty"
        ELSE IF ToLower(input) = CmdExit THEN "exit"
        ELSE IF ToLower(input) = CmdHelp THEN "help"
        ELSE IF ToLower(input) = CmdDryRun THEN "dryrun"
        ELSE "request"

\* mutant of Toggle: the directive switches dry-run on instead of flipping it
Toggle_On(flag) == TRUE

\* main.go:709
Toggle(flag) == ~flag

\* a handler that made no call
Quiet(msgs) ==
    [ genCalls |-> 0, gen |-> GenNone, http |-> FALSE, instructions |-> "",
      execCalls |-> 0, exec |-> NoRun, msgs |-> msgs ]

\* the history record of a handler: ev the event, line the line read (0: none),
\* dry the flag when the handler started, resp the exchange (0: none)
Handled(ev, line, dry, resp, d) ==
    [ ev |-> ev, line |-> line, dry |-> dry, resp |-> resp,
      genCalls |-> d.genCalls, gen |-> d.gen, http |-> d.http,
      instructions |-> d.instructions, execCalls |-> d.execCalls,
      exec |-> d.exec, msgs |-> d.msgs ]

FnOff ==
    /\ fnPc = "off"
    /\ fnIn = <<>>
    /\ fnOut = <<>>
    /\ fnPrev = <<>>
    /\ fnRun = NoRun

Init ==
    /\ pc = "start"
    /\ dryRun \in BOOLEAN
    /\ args \in {"none", "words"}
    /\ configPath \in {"", "given"}
    /\ fs \in [home : HomeFiles, given : GivenFiles]
    /\ configPath = "" => fs.given = "absent"
    /\ configPath = "given" => fs.home \in HomeBeside
    /\ client = "nil"
    /\ togBefore = <<>>
    /\ last = Handled("none", 0, FALSE, 0, Quiet(<<>>))
    /\ exitCode = "running"
    /\ FnOff

\* main.go:600-606: the settings cannot be loaded
MainConfigError ==
    /\ pc = "start"
    /\ LoadConfig(configPath, fs).cfg = "nil"
    /\ pc' = "fatal"
    /\ exitCode' = "1"
    /\ fs' = LoadConfig(configPath, fs).fs
    /\ last' = Handled("main", 0, dryRun, 0, Quiet(<<"Error loading configuration">>))
    /\ UNCHANGED <<dryRun, args, configPath, client, togBefore, fvars>>

\* main.go:608-613: the adapter cannot be constructed
MainClientError ==
    /\ pc = "start"
    /\ LoadConfig(configPath, fs).cfg # "nil"
    /\ CreateLLMClient(LoadConfig(configPath, fs).cfg) = "nil"
    /\ pc' = "fatal"
    /\ exitCode' = "1"
    /\ fs' = LoadConfig(configPath, fs).fs
    /\ last' = Handled("main", 0, dryRun, 0, Quiet(<<"Error creating LLM client">>))
    /\ UNCHANGED <<dryRun, args, configPath, client, togBefore, fvars>>

\* main.go:615-623: one request from the command line, then return
MainSingle ==
    /\ pc = "start"
    /\ args = "words"
    /\ LoadConfig(configPath, fs).cfg # "nil"
    /\ CreateLLMClient(LoadConfig(configPath, fs).cfg) # "nil"
    /\ client' = CreateLLMClient(LoadConfig(configPath, fs).cfg)
    /\ \E r \in 1..Len(Responses) :
         \E run \in Runs(client', LoadConfig(configPath, fs).fs, Responses[r], dryRun) :
         LET d == processCommand(client', LoadConfig(configPath, fs).fs,
                                 Responses[r], run, dryRun)
         IN  /\ last' = Handled("request", 0, dryRun, IF d.http THEN r ELSE 0, d)
             /\ fs' = d.fs
             /\ pc' = IF d.gen.panic THEN "crashed" ELSE "done"
             /\ exitCode' = IF d.gen.panic THEN "2" ELSE "0"
    /\ UNCHANGED <<dryRun, args, configPath, togBefore, fvars>>

\* main.go:625-626, 630-669: the interactive mode starts; it returns at once
\* when the home directory or readline is unavailable
MainInteractive ==
    /\ pc = "start"
    /\ args = "none"
    /\ LoadConfig(configPath, fs).cfg # "nil"
    /\ CreateLLMClient(LoadConfig(configPath, fs).cfg) # "nil"
    /\ client' = CreateLLMClient(LoadConfig(configPath, fs).cfg)
    /\ fs' = LoadConfig(configPath, fs).fs
    /\ \E readlineOk \in BOOLEAN :
         IF fs'.home = "nohome"
         THEN /\ pc' = "done"
              /\ exitCode' = "0"
              /\ last' = Handled("main", 0, dryRun, 0, Quiet(<<"Error getting home directory">>))
         ELSE IF ~readlineOk
         THEN /\ pc' = "done"
              /\ exitCode' = "0"
              /\ last' = Handled("main", 0, dryRun, 0, Quiet(<<"Error initializing readline">>))
         ELSE /\ pc' = "idle"
              /\ exitCode' = "running"
              /\ last' = Handled("main", 0, dryRun, 0, Quiet(<<"banner">>))
    /\ UNCHANGED <<dryRun, args, configPath, togBefore, fvars>>

\* main.go:675-681: ^C; with an empty buffer the loop ends, else the line is dropped
Interrupt ==
    /\ pc = "idle"
    /\ \E bufferEmpty \in BOOLEAN :
         IF bufferEmpty
         THEN /\ pc' = "closed"
              /\ exitCode' = "0"
              /\ last' = Handled("interrupt", 0, dryRun, 0, Quiet(<<"Goodbye!">>))
         ELSE /\ pc' = "idle"
              /\ exitCode' = exitCode
              /\ last' = Handled("interrupt-line", 0, dryRun, 0, Quiet(<<>>))
    /\ UNCHANGED <<dryRun, args, configPath, fs, client, togBefore, fvars>>

\* main.go:682-685
EndOfInput ==
    /\ pc = "idle"
    /\ pc' = "closed"
    /\ exitCode' = "0"
    /\ last' = Handled("eof", 0, dryRun, 0, Quiet(<<"Goodbye!">>))
    /\ UNCHANGED <<dryRun, args, configPath, fs, client, togBefore, fvars>>

\* main.go:686-687: any other readline error
ReadFailure ==
    /\ pc = "idle"
    /\ last' = Handled("read-error", 0, dryRun, 0, Quiet(<<"Error reading input">>))
    /\ UNCHANGED <<pc, exitCode, dryRun, args, configPath, fs, client, togBefore, fvars>>

\* main.go:694-696
EmptyLine ==
    /\ pc = "idle"
    /\ \E l \in 1..Len(Lines) :
         /\ Classify(Lines[l]) = "empty"
         /\ last' = Handled("empty", l, dryRun, 0, Quiet(<<>>))
    /\ UNCHANGED <<pc, exitCode, dryRun, args, configPath, fs, client, togBefore, fvars>>

\* main.go:698-701
ExitDirective ==
    /\ pc = "idle"
    /\ \E l \in 1..Len(Lines) :
         /\ Classify(Lines[l]) = "exit"
         /\ last' = Handled("exit", l, dryRun, 0, Quiet(<<"Goodbye!">>))
    /\ pc' = "closed"
    /\ exitCode' = "0"
    /\ UNCHANGED <<dryRun, args, configPath, fs, client, togBefore, fvars>>

\* mutant of HelpDirective: showing the help also switches dry-run off
HelpDirective_ResetsDryRun ==
    /\ pc = "idle"
    /\ \E l \in 1..Len(Lines) :
         /\ Classify(Lines[l]) = "help"
         /\ last' = Handled("help", l, dryRun, 0, Quiet(<<"help">>))
    /\ dryRun' = FALSE
    /\ UNCHANGED <<pc, exitCode, args, configPath, fs, client, togBefore, fvars>>

\* main.go:703-706
HelpDirective ==
    /\ pc = "idle"
    /\ \E l \in 1..Len(Lines) :
         /\ Classify(Lines[l]) = "help"
         /\ last' = Handled("help", l, dryRun, 0, Quiet(<<"help">>))
    /\ UNCHANGED <<pc, exitCode, dryRun, args, configPath, fs, client, togBefore, fvars>>

\* main.go:708-718
DryRunDirective ==
    /\ pc = "idle"
    /\ \E l \in 1..Len(Lines) :
         /\ Classify(Lines[l]) = "dryrun"
         /\ last' = Handled("dryrun", l, dryRun, 0,
                            Quiet(IF Toggle(dryRun) THEN <<"Dry-run mode enabled.">>
                                  ELSE <<"Dry-run mode disabled.">>))
    /\ dryRun' = Toggle(dryRun)
    /\ togBefore' = IF Len(togBefore) < 2 THEN Append(togBefore, dryRun)
                    ELSE <<togBefore[2], dryRun>>
    /\ UNCHANGED <<pc, exitCode, args, configPath, fs, client, fvars>>

\* main.go:720-722: a natural-language request
Request ==
    /\ pc = "idle"
    /\ \E l \in {i \in 1..Len(Lines) : Classify(Lines[i]) = "request"} :
       \E r \in 1..Len(Responses) :
       \E run \in Runs(client, fs, Responses[r], dryRun) :
         /\ LET d == processCommand(client, fs, Responses[r], run, dryRun)
            IN  /\ last' = Handled("request", l, dryRun, IF d.http THEN r ELSE 0, d)
                /\ fs' = d.fs
                /\ pc' = IF d.gen.panic THEN "crashed" ELSE "idle"
                /\ exitCode' = IF d.gen.panic THEN "2" ELSE exitCode
    /\ UNCHANGED <<dryRun, args, configPath, client, togBefore, fvars>>

Next ==
    \/ MainConfigError
    \/ MainClientError
    \/ MainSingle
    \/ MainInteractive
    \/ Interrupt
    \/ EndOfInput
    \/ ReadFailure
    \/ EmptyLine
    \/ ExitDirective
    \/ HelpDirective
    \/ DryRunDirective
    \/ Request

Spec == Init /\ [][Next]_vars

----------------------------------------------------------------------------
(* Properties of the session *)

\* the last handler was a natural-language request (either mode)
Requested == pc # "off" /\ last.ev = "request"

\* the exchange of the last request, when its request was sent
Sent == Requested /\ last.resp # 0
Exchanged == Responses[last.resp]

\* the last request produced a command that is not blank
Generated ==
    Requested /\ ~last.gen.panic /\ last.gen.err = "" /\ TrimSpace(last.gen.cmd) # <<>>

\* C1: a request dispatched while the dry-run flag is true never calls
\* ExecuteCommand and starts no subshell, in single-command and interactive
\* mode alike; a generated command is only displayed.
C1_DryRunNeverExecutes ==
    (Requested /\ last.dry) =>
        /\ last.execCalls = 0
        /\ ~last.exec.subshell
        /\ last.exec = NoRun
        /\ Generated => last.msgs = <<"[dry run] command">>

\* C1 witness: the flag was switched on by the dryrun directive, and a request
\* then generated a command that was displayed
C1_Witness ==
    /\ pc = "idle"
    /\ Requested /\ last.dry /\ Generated
    /\ togBefore = <<FALSE>>
    /\ last.msgs = <<"[dry run] command">>

\* C2: after two dryrun directives, whatever came between them, the flag has
\* the value it had before the first of the two.
C2_ToggleTwiceRestores ==
    (pc # "off" /\ Len(togBefore) = 2) => dryRun = togBefore[1]

\* C2 witness: started with -n, two directives sent, a request handled since
C2_Witness ==
    /\ pc = "idle"
    /\ togBefore = <<TRUE, FALSE>>
    /\ dryRun
    /\ Requested

\* the value at the fixed extraction path of each variant, JNull when a step
\* of the path is missing
At(v, key) == IF v.t = "obj" THEN (IF key \in DOMAIN v.o THEN v.o[key] ELSE JNull) ELSE JNull
First(v) == IF v.t = "arr" THEN (IF Len(v.a) > 0 THEN v.a[1] ELSE JNull) ELSE JNull
AnswerAt(variant, doc) ==
    IF variant = "ollama" THEN At(doc, "response")
    ELSE IF variant = "openai" THEN At(At(First(At(doc, "choices")), "message"), "content")
    ELSE At(First(At(At(First(At(doc, "candidates")), "content"), "parts")), "text")

\* the body was read and decoded as JSON
Decoded(resp) == resp.net = "ok" /\ resp.json
\* ... but lacks the expected field or shape
Malformed(variant, resp) == Decoded(resp) /\ AnswerAt(variant, resp.doc).t # "str"
\* a GenerationError: transport failure, unparseable body, missing field, or
\* an empty sanitized result
GenerationFailure(variant, resp) ==
    \/ ~Decoded(resp)
    \/ Malformed(variant, resp)
    \/ TrimSpace(cleanLLMResponse(AnswerAt(variant, resp.doc).s)) = <<>>

\* C3 (as claimed): after a request in the interactive loop whose generation
\* fails with a GenerationError, the loop is back in Idle and the process runs.
C3_IdleAfterGenerationError ==
    (Sent /\ args = "none" /\ GenerationFailure(client, Exchanged)) =>
        (pc = "idle" /\ exitCode = "running")

\* C4 (as claimed): a body that parses as JSON but lacks the expected shape
\* makes GenerateCommand return the 'unexpected response format' error; the
\* process does not crash.
C4_MalformedIsAnError ==
    (Sent /\ Malformed(client, Exchanged)) =>
        /\ ~last.gen.panic
        /\ last.gen.err \in { "unexpected response format from Ollama",
                              "unexpected response format from OpenAI",
                              "unexpected response format from Gemini" }
        /\ pc # "crashed"

\* the document has no choices array: the key absent, not an array, or empty
NoChoices(doc) == At(doc, "choices").t # "arr" \/ Len(At(doc, "choices").a) = 0

\* C5: the OpenAI adapter, given parseable JSON without a choices array,
\* returns the malformed-response error and an empty command, without a panic
\* and without calling the sanitizer.
C5_NoChoicesIsAnError ==
    (Sent /\ client = "openai" /\ Decoded(Exchanged) /\ NoChoices(Exchanged.doc)) =>
        /\ last.gen.err = "unexpected response format from OpenAI"
        /\ last.gen.cmd = <<>>
        /\ ~last.gen.panic
        /\ ~last.gen.sanitized
        /\ pc # "crashed"

\* C5 witness: the OpenAI adapter got an empty choices array and reported it
C5_Witness ==
    /\ Sent /\ client = "openai" /\ Decoded(Exchanged)
    /\ At(Exchanged.doc, "choices").t = "arr"
    /\ NoChoices(Exchanged.doc)
    /\ last.gen.err = "unexpected response format from OpenAI"
    /\ pc = "idle"

\* every line printed for a generation error (handleCommandError)
GenerationErrorLines ==
    UNION { { handleCommandError(GenerateCommand(c, fs, Responses[r]).gen.err,
                                 "Error generating command")[i] : i \in 1..2 } :
            c \in {"ollama", "openai", "gemini"}, r \in 1..Len(Responses) }

\* the provider call succeeded and the sanitized command is blank
EmptyGenerated ==
    Requested /\ last.gen.sanitized /\ last.gen.err = "" /\ TrimSpace(last.gen.cmd) = <<>>

\* C10: when the provider call succeeds and the sanitized command is blank, the
\* request is reported with a message of its own (not one used for generation
\* errors), the runner is not called and nothing is shown as a dry-run
\* command, in dry-run and in normal mode.
C10_EmptyCommandReported ==
    EmptyGenerated =>
        /\ last.msgs = <<"LLM returned empty command">>
        /\ \A i \in 1..Len(last.msgs) : last.msgs[i] \notin GenerationErrorLines
        /\ last.execCalls = 0
        /\ ~last.exec.subshell
        /\ pc \in {"idle", "done"}

\* C10 witness: normal mode, a fence and a language tag only, reported
C10_Witness ==
    /\ EmptyGenerated
    /\ ~last.dry
    /\ Sent /\ AnswerAt(client, Exchanged.doc).s # <<>>
    /\ last.msgs = <<"LLM returned empty command">>

----------------------------------------------------------------------------
(* Properties of the sanitizer and the runner (FnSpec) *)

\* the input, trimmed
Trimmed == TrimSpace(fnIn)

\* the trimmed input is one backtick, an inner text, one backtick
InBackticks == Len(Trimmed) >= 2 /\ Trimmed[1] = BT /\ Trimmed[Len(Trimmed)] = BT
BacktickInner == SubSeq(Trimmed, 2, Len(Trimmed) - 1)

\* a text that starts and ends with a triple-backtick fence
Fenced(text) == HasPrefix(text, Fence) /\ HasSuffix(text, Fence)

\* C6 (as claimed): an input that trims to backtick, inner text, backtick is
\* sanitized to the inner text, trimmed.
C6_BacktickPairGivesInner ==
    (fnPc = "cleaned" /\ InBackticks) => fnOut = TrimSpace(BacktickInner)

\* C6 (amended): ... provided the trimmed inner text does not itself start and
\* end with a triple-backtick fence (rule 3 then strips that fence too).
C6_BacktickPairGivesInnerUnlessFenced ==
    (fnPc = "cleaned" /\ InBackticks /\ ~Fenced(TrimSpace(BacktickInner))) =>
        fnOut = TrimSpace(BacktickInner)

\* C6 witness: a backtick pair around a text with white space inside the pair
C6_Witness ==
    /\ fnPc = "cleaned"
    /\ InBackticks
    /\ ~Fenced(TrimSpace(BacktickInner))
    /\ TrimSpace(BacktickInner) # BacktickInner
    /\ fnOut = <<"l">>

\* the trimmed input is a fence, a first line that is a shell-language tag,
\* the remaining lines, a fence
InFenceWithTag ==
    /\ Len(Trimmed) >= 6
    /\ Fenced(Trimmed)
    /\ IsShellTag(Split(SubSeq(Trimmed, 4, Len(Trimmed) - 3))[1])
FenceRest == TrimSpace(Join(Tail(Split(SubSeq(Trimmed, 4, Len(Trimmed) - 3)))))

\* C7 (as claimed): an input in a triple-backtick fence whose first line is
\* bash, sh or shell is sanitized to the remaining lines, trimmed (the empty
\* string when there are none).
C7_FenceWithTagGivesRest ==
    (fnPc = "cleaned" /\ InFenceWithTag) => fnOut = FenceRest

\* C8 (as claimed): sanitizing a sanitized string changes nothing.
C8_SanitizeIdempotent ==
    fnPc = "recleaned" => fnOut = fnPrev

\* C9: ExecuteCommand given an empty or all-white-space string returns a
\* precondition error, starts no subshell and prints nothing; so a subshell is
\* started only for a command with a character that is not white space.
C9_BlankCommandRejected ==
    fnPc = "ran" =>
        /\ TrimSpace(fnIn) = <<>> =>
              /\ fnRun.err \in {"no command generated", "empty command"}
              /\ ~fnRun.subshell
              /\ fnRun.msgs = <<>>
        /\ fnRun.subshell => \E i \in 1..Len(fnIn) : ~IsSpace(fnIn[i])

\* C9 witness: a command of white space only was rejected
C9_Witness ==
    /\ fnPc = "ran"
    /\ fnIn # <<>>
    /\ TrimSpace(fnIn) = <<>>
    /\ fnRun.err = "empty command"

----------------------------------------------------------------------------
(* Properties of the loop's events *)

\* the session is interactive and past its start
InLoop == pc \in {"idle", "closed", "crashed"} /\ args = "none"

\* C11 (as claimed): the loop is Closed exactly after the exit directive, end
\* of input, or an interrupt with an empty buffer, and then the exit code is
\* 0; after every other event (an interrupt that drops a partial line, an
\* empty line, help, dryrun, a request that succeeds or fails) it is Idle.
C11_ClosedExactlyOnExit ==
    InLoop =>
        /\ last.ev \in {"exit", "eof", "interrupt"} => (pc = "closed" /\ exitCode = "0")
        /\ last.ev \in {"main", "interrupt-line", "read-error", "empty", "help",
                        "dryrun", "request"} => (pc = "idle" /\ exitCode = "running")

\* C12 (as claimed): what an executed command wrote to stderr is shown,
\* whatever its exit status.
C12_StderrAlwaysShown ==
    (fnPc = "ran" /\ fnRun.subshell /\ TrimSpace(fnRun.captured) # <<>>) =>
        \E i \in 1..Len(fnRun.msgs) : fnRun.msgs[i] = "Error: stderr"

\* the line of the last handler, trimmed and lower-cased
LineRead == ToLower(TrimSpace(Lines[last.line]))

\* C13: a line is trimmed and falls in exactly one class: empty, exit, help,
\* dryrun (each in any letter case), or a request; only a request calls the
\* provider or runs a command.
C13_LineClassified ==
    (InLoop /\ last.line # 0) =>
        /\ last.ev = "empty" <=> LineRead = <<>>
        /\ last.ev = "exit" <=> LineRead = CmdExit
        /\ last.ev = "help" <=> LineRead = CmdHelp
        /\ last.ev = "dryrun" <=> LineRead = CmdDryRun
        /\ last.ev = "request" <=> LineRead \notin {<<>>, CmdExit, CmdHelp, CmdDryRun}
        /\ last.ev = "exit" => pc = "closed"
        /\ last.ev = "help" => last.msgs = <<"help">>
        /\ last.ev = "dryrun" => dryRun = ~last.dry
        /\ last.ev = "request" => last.genCalls = 1
        /\ last.ev # "request" =>
              /\ last.genCalls = 0
              /\ ~last.http
              /\ last.execCalls = 0
              /\ ~last.exec.subshell

\* C13 witness: HELP in capitals with a trailing space showed the help and
\* called nothing
C13_Witness ==
    /\ InLoop /\ last.line # 0
    /\ Lines[last.line] # CmdHelp
    /\ last.ev = "help"
    /\ last.genCalls = 0
    /\ pc = "idle"

\* C14: the dry-run flag changes only when a dryrun directive is handled:
\* after any other handler it has the value it had when the handler started.
C14_FlagChangesOnlyOnDirective ==
    (pc \notin {"off", "start"}) =>
        IF last.ev = "dryrun" THEN dryRun = ~last.dry ELSE dryRun = last.dry

\* C14 witness: started with -n, switched off by the directive, and still off
\* after a request whose command was run and failed
C14_Witness ==
    /\ pc = "idle"
    /\ togBefore = <<TRUE>>
    /\ Requested /\ last.exec.err = "exit"
    /\ ~dryRun

\* C15: a request makes exactly one GenerateCommand call, at most one HTTP
\* exchange and at most one command execution; nothing is retried after a
\* failure, and the command is the sanitized answer of this request's exchange.
C15_OneCallPerRequest ==
    Requested =>
        /\ last.genCalls = 1
        /\ last.execCalls \in {0, 1}
        /\ (last.gen.panic \/ last.gen.err # "") => (last.execCalls = 0 /\ last.exec = NoRun)
        /\ last.exec.err # "" => last.execCalls = 1
        /\ Len(SelectSeq(last.msgs, LAMBDA m : m = "echo")) <= 1
        /\ (Sent /\ ~last.gen.panic /\ last.gen.err = "") =>
              last.gen.cmd = cleanLLMResponse(AnswerAt(client, Exchanged.doc).s)

\* C15 witness: a generation failed, one call was made, the loop goes on
C15_Witness ==
    /\ pc = "idle"
    /\ Sent /\ last.gen.err # ""
    /\ last.genCalls = 1
    /\ last.execCalls = 0

----------------------------------------------------------------------------
(* Properties of the settings *)

\* the settings file main loaded: the one --config names, else the home file
Started == pc \notin {"off", "start"}
UsedFile == IF configPath = "" THEN fs.home ELSE fs.given
SettingsLoaded == Started /\ UsedFile \in SettingsNames
Used == Settings[UsedFile]

\* the settings name no supported provider, or one whose credential is empty
Unconfigured(c) ==
    \/ ToLower(c.provider) \notin { <<"o","l","l","a","m","a">>, <<"o","p","e","n","a","i">>,
                                    <<"g","e","m","i","n","i">> }
    \/ ToLower(c.provider) = <<"o","p","e","n","a","i">> /\ c.openaiKey = ""
    \/ ToLower(c.provider) = <<"g","e","m","i","n","i">> /\ c.geminiKey = ""

\* C16: with an unsupported provider, or openai or gemini without a credential,
\* the process exits non-zero before a line is read, a provider called or a
\* command run; an OpenAI or Gemini adapter always holds a credential.
C16_UnconfiguredProviderIsFatal ==
    SettingsLoaded =>
        /\ Unconfigured(Used) =>
              /\ pc = "fatal"
              /\ exitCode = "1"
              /\ client = "nil"
              /\ last.ev = "main"
              /\ last.line = 0
              /\ last.genCalls = 0
              /\ last.execCalls = 0
        /\ client = "openai" => Used.openaiKey # ""
        /\ client = "gemini" => Used.geminiKey # ""
        /\ client # "nil" => ~Unconfigured(Used)

\* C16 witness: gemini (in capitals) without a key ended the process at once
C16_Witness ==
    /\ SettingsLoaded
    /\ UsedFile = "gemini_nokey"
    /\ pc = "fatal"
    /\ exitCode = "1"

\* C17 (as claimed): every prompt takes its custom instructions from the
\* settings loaded at startup (those of --config when it is given), and
\* building the prompt never crashes the request.
C17_PromptUsesLoadedSettings ==
    (Requested /\ SettingsLoaded) =>
        /\ ~(last.gen.panic /\ ~last.http)
        /\ last.instructions = Used.sysPrompt

====
